---------------------------- MODULE Spec2Model ----------------------------
(***************************************************************************)
(* A model of the baffles Bloom filter library: the word-packed BitArray,  *)
(* index_mask, hash_until (rejection sampling), the StandardBloom filter   *)
(* and the BlockedBloom filter built from StandardBloom blocks.            *)
(*                                                                         *)
(* Conventions.                                                            *)
(*  - A u64 hash value is an integer modulo 2^HashBits (the width is       *)
(*    scaled down; all hash arithmetic wraps at that width).               *)
(*  - A BitArray word (u64) is the set of its set bit positions, a subset  *)
(*    of 0..bits_in_word-1: `w |= 1 << i` is w \cup {i}, `w &= !(1 << i)`  *)
(*    is w \ {i}, and `(1 << i) == w & (1 << i)` is i \in w.               *)
(*  - An operation that can panic returns a record with an `ok` field; an  *)
(*    operation whose rejection loop never ends returns `ok = FALSE` with  *)
(*    `hang = TRUE`.                                                       *)
(***************************************************************************)
EXTENDS Integers, Sequences, FiniteSets, TLC

VARIABLES
    phase,   \* "init" | "live" | "panic" | "hung": where the program is
    bf,      \* the filter under test (StandardBloom or BlockedBloom), or NoFilter
    args,    \* the arguments the filter was constructed with
    marked,  \* the items set() was called with so far
    op,      \* the last operation performed and what it returned
    ba       \* a BitArray used on its own

vars == <<phase, bf, args, marked, op, ba>>

---------------------------------------------------------------------------
(* Bounds of the model. *)

MaxN == 2          \* n is drawn from 0..MaxN
MaxC == 2          \* c is drawn from 0..MaxC (and BigC)
MaxK == 2          \* k is drawn from 0..MaxK
MaxB == 2          \* b is drawn from 0..MaxB
MaxItem == 2       \* items are 0..MaxItem
MaxSeed == 1       \* caller seeds and rng streams are 0..MaxSeed
HashBits == 8      \* the width a u64 is scaled to
BigC == 65         \* a bits-per-member count that makes a filter span two words
MaxSmall == 2      \* BitArray widths and indices are taken near 0 and near a word edge
MaxRunItem == 8    \* the example driver gives up looking for an unmarked item after this one

Items == 0..MaxItem
Seeds == 0..MaxSeed
U64Mod == 2 ^ HashBits
U64Max == U64Mod - 1

---------------------------------------------------------------------------
(* u64 helpers. *)

RECURSIVE BitAnd(_, _)
BitAnd(a, b) ==
    IF a = 0 \/ b = 0 THEN 0
    ELSE 2 * BitAnd(a \div 2, b \div 2) + (IF a % 2 = 1 /\ b % 2 = 1 THEN 1 ELSE 0)

wrapping_add(a, b) == (a + b) % U64Mod
wrapping_mul(a, b) == (a * b) % U64Mod

---------------------------------------------------------------------------
(* bit_array.rs *)

size_of_Word == 8
bits_in_word == 8 * size_of_Word

word_index_for_bit(bit) == bit \div bits_in_word

NoBitArray == [bits |-> 0, backing |-> <<>>]

\* A faulty BitArray::new: the words start as all ones (vec![!0; n]).
BitArray_new_all_ones(bit_count) ==
    IF ~(bit_count > 0) THEN [ok |-> FALSE, self |-> NoBitArray]
    ELSE [ok |-> TRUE,
          self |-> [bits |-> bit_count,
                    backing |-> [w \in 1..(word_index_for_bit(bit_count - 1) + 1)
                                     |-> 0..(bits_in_word - 1)]]]

\* BitArray::new: assert!(bit_count > 0), then zeroed words covering bit_count bits.
BitArray_new(bit_count) ==
    IF ~(bit_count > 0) THEN [ok |-> FALSE, self |-> NoBitArray]
    ELSE LET max_index == bit_count - 1
             words_needed_for_bits == word_index_for_bit(max_index) + 1
         IN [ok |-> TRUE,
             self |-> [bits |-> bit_count,
                       backing |-> [w \in 1..words_needed_for_bits |-> {}]]]

\* A faulty BitArray::set_to: the bound is checked with <= instead of <.
BitArray_set_to_off_by_one(self, bit, state) ==
    IF ~(bit <= self.bits) THEN [ok |-> FALSE, self |-> self]
    ELSE [ok |-> TRUE,
          self |-> [self EXCEPT !.backing[word_index_for_bit(bit) + 1] =
                        IF state THEN @ \cup {bit % bits_in_word}
                        ELSE @ \ {bit % bits_in_word}]]

\* BitArray::set_to: assert!(bit < self.bits), then set or clear one bit of one word.
\* backing is 1-based here: word word_ix of the code is backing[word_ix + 1].
BitArray_set_to(self, bit, state) ==
    IF ~(bit < self.bits) THEN [ok |-> FALSE, self |-> self]
    ELSE LET word_ix == word_index_for_bit(bit)
             bit_ix == bit % bits_in_word
             set_mask == {bit_ix}
         IN [ok |-> TRUE,
             self |-> [self EXCEPT !.backing[word_ix + 1] =
                           IF state THEN @ \cup set_mask ELSE @ \ set_mask]]

\* A faulty BitArray::set: the word is assigned (=) instead of or-ed (|=).
BitArray_set_overwrites_word(self, bit) ==
    IF ~(bit < self.bits) THEN [ok |-> FALSE, self |-> self]
    ELSE [ok |-> TRUE,
          self |-> [self EXCEPT !.backing[word_index_for_bit(bit) + 1] =
                        {bit % bits_in_word}]]

BitArray_set(self, bit) == BitArray_set_to(self, bit, TRUE)

BitArray_clear(self, bit) == BitArray_set_to(self, bit, FALSE)

\* A faulty BitArray::get: the bit is always looked up in the first word.
BitArray_get_first_word(self, bit) ==
    IF ~(bit < self.bits) THEN [ok |-> FALSE, self |-> self, ret |-> FALSE]
    ELSE [ok |-> TRUE, self |-> self,
          ret |-> (bit % bits_in_word) \in self.backing[1]]

\* BitArray::get: assert!(bit < self.bits), then test one bit of one word.
BitArray_get(self, bit) ==
    IF ~(bit < self.bits) THEN [ok |-> FALSE, self |-> self, ret |-> FALSE]
    ELSE LET word_ix == word_index_for_bit(bit)
             bit_ix == bit % bits_in_word
             set_mask == {bit_ix}
         IN [ok |-> TRUE, self |-> self,
             ret |-> set_mask = (self.backing[word_ix + 1] \cap set_mask)]

BitArray_width(self) == self.bits

\* The bits of a BitArray that read as set, as a set of bit indices.
SetBits(self) ==
    {i \in 0..(self.bits - 1) : (i % bits_in_word) \in self.backing[word_index_for_bit(i) + 1]}

---------------------------------------------------------------------------
(* The hasher H: Hasher + Default and the random source, both external to  *)
(* the library.  The library relies only on the hasher being a             *)
(* deterministic function of what was written to it.  It is modelled as a  *)
(* multiplicative mixer whose internal state is twice as wide as its       *)
(* output; a hasher is its internal state, writes accumulate and finish    *)
(* does not reset it.                                                      *)

HasherMod == U64Mod * U64Mod

Hasher_default == 0

Hasher_write_u64(h, v) == ((h + v) * 5417 + 1) % HasherMod

Hasher_finish(h) == (((h * 3613 + 977) % HasherMod) \div 16) % U64Mod

\* <usize as Hash>::hash(item, &mut h) writes the integer to the hasher.
Item_hash(item, h) == Hasher_write_u64(h, item)

\* The i-th value (i = 0, 1, ...) that rng.gen::<u64>() yields on random stream s.
rng_gen(s, i) == (s * 97 + i * 59 + 13) % U64Mod

---------------------------------------------------------------------------
(* index_mask.rs *)

\* (1..64).map(|i| (1 << i) - 1).find(|m| *m >= value).unwrap_or(u64::max_value()),
\* with 64 scaled to HashBits.
RECURSIVE index_mask_find(_, _)
index_mask_find(i, value) ==
    IF i >= HashBits THEN U64Max
    ELSE IF (2 ^ i) - 1 >= value THEN (2 ^ i) - 1
    ELSE index_mask_find(i + 1, value)

\* A faulty index_mask: the candidates start at (1 << 0) - 1.
index_mask_from_zero(value) == index_mask_find(0, value)

index_mask(value) == index_mask_find(1, value)

---------------------------------------------------------------------------
(* hash_until.rs *)

\* A predicate F: Fn(u64) -> bool is the closure's captured values: the mask, the
\* bound, and which comparison it makes.  call_prop applies it.
call_prop(prop, v) ==
    IF prop.cmp = "le" THEN BitAnd(prop.mask, v) <= prop.bound
    ELSE BitAnd(prop.mask, v) > prop.bound

\* The loop of hash_until.  h is the hasher after the last write, r the value
\* under test, n the number of write_u64/finish pairs made so far.  The tried
\* set detects a loop that revisits a (hasher, value) pair: the code then spins
\* for ever, which is reported as hang.
RECURSIVE hash_until_loop(_, _, _, _, _)
hash_until_loop(h, r, prop, tried, n) ==
    IF call_prop(prop, r)
    THEN [ok |-> TRUE, hang |-> FALSE, r |-> r, h |-> h, writes |-> n]
    ELSE IF <<h, r>> \in tried
    THEN [ok |-> FALSE, hang |-> TRUE, r |-> r, h |-> h, writes |-> n]
    ELSE LET h2 == Hasher_write_u64(h, r)
         IN hash_until_loop(h2, Hasher_finish(h2), prop, tried \cup {<<h, r>>}, n + 1)

\* A faulty hash_until: the initial value is hashed once before it is tested.
hash_until_always_hashes(h, initial, prop) ==
    LET h1 == Hasher_write_u64(h, initial)
    IN hash_until_loop(h1, Hasher_finish(h1), prop, {}, 1)

\* hash_until: the usable value r, the hasher h as the call leaves it, and the
\* number of times the hasher was written to and finished.
hash_until(h, initial, prop) ==
    IF call_prop(prop, initial)
    THEN [ok |-> TRUE, hang |-> FALSE, r |-> initial, h |-> h, writes |-> 0]
    ELSE LET h1 == Hasher_write_u64(h, initial)
         IN hash_until_loop(h1, Hasher_finish(h1), prop, {}, 1)

---------------------------------------------------------------------------
(* standard.rs *)

NoFilter == [tag |-> "none"]

\* A faulty StandardBloom::new_with_seeds: assert!(k > 0) is missing.
StandardBloom_new_with_seeds_no_k_assert(n, c, k, seed1, seed2) ==
    IF ~(n * c > 0) THEN [ok |-> FALSE, self |-> NoFilter]
    ELSE [ok |-> TRUE,
          self |-> [tag |-> "standard", k |-> k, seed1 |-> seed1, seed2 |-> seed2,
                    bits |-> BitArray_new(n * c).self,
                    mask |-> index_mask(n * c - 1)]]

\* StandardBloom::new_with_seeds
StandardBloom_new_with_seeds(n, c, k, seed1, seed2) ==
    IF ~(k > 0) THEN [ok |-> FALSE, self |-> NoFilter]
    ELSE IF ~(n * c > 0) THEN [ok |-> FALSE, self |-> NoFilter]
    ELSE LET bits == n * c
             max_bit_index == bits - 1
             arr == BitArray_new(bits)
         IN IF ~arr.ok THEN [ok |-> FALSE, self |-> NoFilter]
            ELSE [ok |-> TRUE,
                  self |-> [tag |-> "standard",
                            k |-> k,
                            seed1 |-> seed1,
                            seed2 |-> seed2,
                            bits |-> arr.self,
                            mask |-> index_mask(max_bit_index)]]

\* <StandardBloom as BloomFilterCreate>::new: two seeds from the thread rng.
StandardBloom_new(n, c, k, s) ==
    StandardBloom_new_with_seeds(n, c, k, rng_gen(s, 0), rng_gen(s, 1))

\* A faulty predicate: the masked hash is compared with the width, not width - 1.
StandardBloom_prop_off_by_one(self) ==
    [cmp |-> "le", mask |-> self.mask, bound |-> BitArray_width(self.bits)]

\* The predicate of StandardBloom::hash: (self.mask & h) <= (self.bits.width() - 1).
StandardBloom_prop(self) ==
    [cmp |-> "le", mask |-> self.mask, bound |-> BitArray_width(self.bits) - 1]

\* One round of the loop of StandardBloom::hash: the usable hash for index i.
StandardBloom_usable_hash(self, ih1, ih2, i) ==
    LET k_and_m == wrapping_add(ih1, wrapping_mul(i % U64Mod, ih2))
        h3 == Hasher_default
    IN hash_until(h3, k_and_m, StandardBloom_prop(self))

\* StandardBloom::hash: the k bit indices of item (v is 1-based: v[i + 1] is the
\* code's v[i]).
StandardBloom_hash(self, item) ==
    LET h1 == Item_hash(item, Hasher_write_u64(Hasher_default, self.seed1))
        h2 == Item_hash(item, Hasher_write_u64(Hasher_default, self.seed2))
        ih1 == Hasher_finish(h1)
        ih2 == Hasher_finish(h2)
        u == [i \in 0..(self.k - 1) |-> StandardBloom_usable_hash(self, ih1, ih2, i)]
    IN IF \E i \in 0..(self.k - 1) : u[i].hang
       THEN [ok |-> FALSE, hang |-> TRUE, v |-> <<>>]
       ELSE [ok |-> TRUE, hang |-> FALSE,
             v |-> [j \in 1..self.k |-> BitAnd(self.mask, u[j - 1].r)]]

\* for ix in v[from..] { bits.toggle(ix) }: a faulty set that flips each bit.
RECURSIVE toggle_each(_, _, _)
toggle_each(bits, v, from) ==
    IF from > Len(v) THEN [ok |-> TRUE, self |-> bits]
    ELSE LET r == BitArray_set_to(bits, v[from], ~BitArray_get(bits, v[from]).ret)
         IN IF ~r.ok THEN r ELSE toggle_each(r.self, v, from + 1)

\* for ix in v[from..] { bits.set(ix) }
RECURSIVE set_each(_, _, _)
set_each(bits, v, from) ==
    IF from > Len(v) THEN [ok |-> TRUE, self |-> bits]
    ELSE LET r == BitArray_set(bits, v[from])
         IN IF ~r.ok THEN r ELSE set_each(r.self, v, from + 1)

\* v[from..].iter().all(|ix| bits.get(*ix)): stops at the first unset bit.
RECURSIVE all_set(_, _, _)
all_set(bits, v, from) ==
    IF from > Len(v) THEN [ok |-> TRUE, ret |-> TRUE]
    ELSE LET r == BitArray_get(bits, v[from])
         IN IF ~r.ok THEN [ok |-> FALSE, ret |-> FALSE]
            ELSE IF ~r.ret THEN [ok |-> TRUE, ret |-> FALSE]
            ELSE all_set(bits, v, from + 1)

\* A faulty set: only the first k - 1 of the k bits are set.
StandardBloom_set_skips_last(self, item) ==
    LET hv == StandardBloom_hash(self, item)
    IN IF hv.hang THEN [ok |-> FALSE, hang |-> TRUE, self |-> self]
       ELSE LET r == set_each(self.bits, SubSeq(hv.v, 1, Len(hv.v) - 1), 1)
            IN [ok |-> r.ok, hang |-> FALSE, self |-> [self EXCEPT !.bits = r.self]]

\* A faulty set: each of the k bits is flipped instead of set.
StandardBloom_set_toggles(self, item) ==
    LET hv == StandardBloom_hash(self, item)
    IN IF hv.hang THEN [ok |-> FALSE, hang |-> TRUE, self |-> self]
       ELSE LET r == toggle_each(self.bits, hv.v, 1)
            IN [ok |-> r.ok, hang |-> FALSE, self |-> [self EXCEPT !.bits = r.self]]

\* <StandardBloom as BloomFilter>::set
StandardBloom_set(self, item) ==
    LET hv == StandardBloom_hash(self, item)
    IN IF hv.hang THEN [ok |-> FALSE, hang |-> TRUE, self |-> self]
       ELSE LET r == set_each(self.bits, hv.v, 1)
            IN [ok |-> r.ok, hang |-> FALSE, self |-> [self EXCEPT !.bits = r.self]]

\* A faulty get: the bits of the item are set while they are read.
StandardBloom_get_marks(self, item) ==
    LET hv == StandardBloom_hash(self, item)
    IN IF hv.hang THEN [ok |-> FALSE, hang |-> TRUE, self |-> self, ret |-> FALSE]
       ELSE LET r == all_set(self.bits, hv.v, 1)
            IN [ok |-> r.ok, hang |-> FALSE,
                self |-> [self EXCEPT !.bits = set_each(self.bits, hv.v, 1).self],
                ret |-> r.ret]

\* <StandardBloom as BloomFilter>::get
StandardBloom_get(self, item) ==
    LET hv == StandardBloom_hash(self, item)
    IN IF hv.hang THEN [ok |-> FALSE, hang |-> TRUE, self |-> self, ret |-> FALSE]
       ELSE LET r == all_set(self.bits, hv.v, 1)
            IN [ok |-> r.ok, hang |-> FALSE, self |-> self, ret |-> r.ret]

---------------------------------------------------------------------------
(* blocked.rs *)

RECURSIVE Log2Floor(_)
Log2Floor(x) == IF x < 2 THEN 0 ELSE 1 + Log2Floor(x \div 2)

f32_mantissa_bits == 24

\* `x as f32` for an unsigned integer x: the nearest value with a 24-bit
\* significand, ties to even.
as_f32(x) ==
    IF x < 2 ^ f32_mantissa_bits THEN x
    ELSE LET ulp == 2 ^ (Log2Floor(x) - (f32_mantissa_bits - 1))
             q == x \div ulp
             r == x % ulp
         IN ulp * (IF 2 * r > ulp \/ (2 * r = ulp /\ q % 2 = 1) THEN q + 1 ELSE q)

\* (nf / bf).ceil() as usize for f32 values nf >= 0 and df > 0 that hold integers:
\* the exact quotient is rounded to a 24-bit significand (ties to even) and only
\* then rounded up to an integer.
f32_div_ceil(nf, df) ==
    LET m == nf \div df
        r == nf % df
    IN IF r = 0 THEN as_f32(m)
       ELSE IF m = 0 THEN 1
       ELSE LET e == Log2Floor(m)
            IN IF e < f32_mantissa_bits
               THEN \* representable values around the quotient are 1 / (D / 2) apart
                    LET D == 2 ^ (f32_mantissa_bits - e)
                        below == r < (df + D - 1) \div D
                        tie == df % D = 0 /\ r = df \div D
                        even == (D > 2) \/ (m % 2 = 0)
                    IN IF below \/ (tie /\ even) THEN m ELSE m + 1
               ELSE \* representable values around the quotient are ulp >= 2 apart
                    LET ulp == 2 ^ (e - (f32_mantissa_bits - 1))
                        q == nf \div (df * ulp)
                        rr == nf % (df * ulp)
                    IN ulp * (IF 2 * rr > df * ulp \/ (2 * rr = df * ulp /\ q % 2 = 1)
                              THEN q + 1 ELSE q)

\* let n_per_block = (n as f32 / b as f32).ceil() as usize;
n_per_block_of(n, b) == f32_div_ceil(as_f32(n), as_f32(b))

\* blocks: (0..b).map(|_| StandardBloom::new_with_seeds(n_per_block, c, k, gen, gen)):
\* block j (0-based) takes the rng's values 1 + 2j and 2 + 2j.
BlockedBloom_make_block(n_per_block, c, k, s, j) ==
    StandardBloom_new_with_seeds(n_per_block, c, k,
                                 rng_gen(s, 1 + 2 * j), rng_gen(s, 2 + 2 * j))

\* BlockedBloom::new_with_blocks, on random stream s.
BlockedBloom_new_with_blocks(n, c, k, b, s) ==
    IF ~(n > 0) \/ ~(c > 0) \/ ~(k > 0) \/ ~(b > 0) THEN [ok |-> FALSE, self |-> NoFilter]
    ELSE LET n_per_block == n_per_block_of(n, b)
             max_block_index == b - 1
             made == [j \in 1..b |-> BlockedBloom_make_block(n_per_block, c, k, s, j - 1)]
         IN IF ~(n_per_block >= 1) THEN [ok |-> FALSE, self |-> NoFilter]
            ELSE IF \E j \in 1..b : ~made[j].ok THEN [ok |-> FALSE, self |-> NoFilter]
            ELSE [ok |-> TRUE,
                  self |-> [tag |-> "blocked",
                            hasher_seed |-> rng_gen(s, 0),
                            mask |-> index_mask(max_block_index),
                            blocks |-> [j \in 1..b |-> made[j].self]]]

max_block_size == 65536

\* <BlockedBloom as BloomFilterCreate>::new: ceil(n * c / 64K) blocks.  n and c
\* are far below 2^53, so the f64 product and quotient are exact.
BlockedBloom_block_count(n, c) == (n * c + max_block_size - 1) \div max_block_size

BlockedBloom_new(n, c, k, s) ==
    BlockedBloom_new_with_blocks(n, c, k, BlockedBloom_block_count(n, c), s)

\* The predicate of block_idx: (self.mask & v) <= (self.blocks.len() - 1).
BlockedBloom_prop(self) ==
    [cmp |-> "le", mask |-> self.mask, bound |-> Len(self.blocks) - 1]

\* A faulty block_idx: the initial hash is masked without rejection sampling.
BlockedBloom_block_idx_no_rejection(self, item) ==
    LET h == Item_hash(item, Hasher_write_u64(Hasher_default, self.hasher_seed))
    IN [ok |-> TRUE, hang |-> FALSE, idx |-> BitAnd(Hasher_finish(h), self.mask)]

\* BlockedBloom::block_idx: the 0-based index of the block item belongs to.
BlockedBloom_block_idx(self, item) ==
    LET h == Item_hash(item, Hasher_write_u64(Hasher_default, self.hasher_seed))
        initial == Hasher_finish(h)
        usable_hash == hash_until(h, initial, BlockedBloom_prop(self))
    IN [ok |-> usable_hash.ok, hang |-> usable_hash.hang,
        idx |-> BitAnd(usable_hash.r, self.mask)]

\* A faulty set: the item is marked in every block, not only in its own.
RECURSIVE set_in_blocks(_, _, _)
set_in_blocks(blocks, item, j) ==
    IF j > Len(blocks) THEN blocks
    ELSE set_in_blocks([blocks EXCEPT ![j] = StandardBloom_set(blocks[j], item).self],
                       item, j + 1)

BlockedBloom_set_every_block(self, item) ==
    [ok |-> TRUE, hang |-> FALSE,
     self |-> [self EXCEPT !.blocks = set_in_blocks(self.blocks, item, 1)]]

\* <BlockedBloom as BloomFilter>::set.  blocks is 1-based here; indexing past the
\* end of the Vec panics.
BlockedBloom_set(self, item) ==
    LET i == BlockedBloom_block_idx(self, item)
    IN IF i.hang THEN [ok |-> FALSE, hang |-> TRUE, self |-> self]
       ELSE IF ~(i.idx < Len(self.blocks)) THEN [ok |-> FALSE, hang |-> FALSE, self |-> self]
       ELSE LET r == StandardBloom_set(self.blocks[i.idx + 1], item)
            IN [ok |-> r.ok, hang |-> r.hang,
                self |-> [self EXCEPT !.blocks[i.idx + 1] = r.self]]

\* <BlockedBloom as BloomFilter>::get
BlockedBloom_get(self, item) ==
    LET i == BlockedBloom_block_idx(self, item)
    IN IF i.hang THEN [ok |-> FALSE, hang |-> TRUE, self |-> self, ret |-> FALSE]
       ELSE IF ~(i.idx < Len(self.blocks))
            THEN [ok |-> FALSE, hang |-> FALSE, self |-> self, ret |-> FALSE]
       ELSE LET r == StandardBloom_get(self.blocks[i.idx + 1], item)
            IN [ok |-> r.ok, hang |-> r.hang,
                self |-> [self EXCEPT !.blocks[i.idx + 1] = r.self], ret |-> r.ret]

---------------------------------------------------------------------------
(* The BloomFilter trait: set and get dispatch on the filter's type. *)

BloomFilter_set(self, item) ==
    IF self.tag = "standard" THEN StandardBloom_set(self, item)
    ELSE BlockedBloom_set(self, item)

BloomFilter_get(self, item) ==
    IF self.tag = "standard" THEN StandardBloom_get(self, item)
    ELSE BlockedBloom_get(self, item)

\* The StandardBloom filters a filter consists of: itself, or its blocks.
FilterBlocks(self) ==
    IF self.tag = "standard" THEN <<self>>
    ELSE IF self.tag = "blocked" THEN self.blocks
    ELSE <<>>

---------------------------------------------------------------------------
(* The state machine: a program constructs one filter, then calls set and  *)
(* get on it.  A panic or a call that never returns ends the program.      *)

Ns == 0..MaxN
Cs == (0..MaxC) \cup {BigC}
Ks == 0..MaxK
Bs == 0..MaxB

NoArgs == [ctor |-> "none", n |-> 0, c |-> 0, k |-> 0, b |-> 0]
NoOp == [name |-> "none", item |-> 0, ret |-> FALSE, again |-> FALSE]

Init ==
    /\ phase = "init"
    /\ bf = NoFilter
    /\ args = NoArgs
    /\ marked = {}
    /\ op = NoOp
    /\ ba = NoBitArray

\* The program after a constructor returned r (or panicked), a being its arguments.
Constructed(r, a) ==
    /\ phase' = IF r.ok THEN "live" ELSE "panic"
    /\ bf' = r.self
    /\ args' = a
    /\ op' = [NoOp EXCEPT !.name = "new"]
    /\ UNCHANGED <<marked, ba>>

StandardNew ==
    \E n \in Ns, c \in Cs, k \in Ks, s \in Seeds :
        /\ phase = "init"
        /\ Constructed(StandardBloom_new(n, c, k, s),
                       [ctor |-> "StandardBloom::new", n |-> n, c |-> c, k |-> k, b |-> 0])

StandardNewWithSeeds ==
    \E n \in Ns, c \in Cs, k \in Ks, seed1 \in Seeds, seed2 \in Seeds :
        /\ phase = "init"
        /\ Constructed(StandardBloom_new_with_seeds(n, c, k, seed1, seed2),
                       [ctor |-> "StandardBloom::new_with_seeds",
                        n |-> n, c |-> c, k |-> k, b |-> 0])

BlockedNew ==
    \E n \in Ns, c \in Cs, k \in Ks, s \in Seeds :
        /\ phase = "init"
        /\ Constructed(BlockedBloom_new(n, c, k, s),
                       [ctor |-> "BlockedBloom::new", n |-> n, c |-> c, k |-> k,
                        b |-> BlockedBloom_block_count(n, c)])

BlockedNewWithBlocks ==
    \E n \in Ns, c \in Cs, k \in Ks, b \in Bs, s \in Seeds :
        /\ phase = "init"
        /\ Constructed(BlockedBloom_new_with_blocks(n, c, k, b, s),
                       [ctor |-> "BlockedBloom::new_with_blocks",
                        n |-> n, c |-> c, k |-> k, b |-> b])

\* The program after set or get returned r (or panicked, or never returned).
Returned(r) ==
    /\ phase' = IF r.hang THEN "hung" ELSE IF r.ok THEN "live" ELSE "panic"
    /\ bf' = r.self
    /\ UNCHANGED <<args, ba>>

Set ==
    \E item \in Items :
        LET r == BloomFilter_set(bf, item)
        IN /\ phase = "live"
           /\ Returned(r)
           /\ marked' = marked \cup {item}
           /\ op' = [name |-> "set", item |-> item, ret |-> FALSE, again |-> item \in marked]

Get ==
    \E item \in Items :
        LET r == BloomFilter_get(bf, item)
        IN /\ phase = "live"
           /\ Returned(r)
           /\ op' = [name |-> "get", item |-> item, ret |-> r.ret, again |-> FALSE]
           /\ UNCHANGED marked

Next ==
    \/ StandardNew
    \/ StandardNewWithSeeds
    \/ BlockedNew
    \/ BlockedNewWithBlocks
    \/ Set
    \/ Get

Spec == Init /\ [][Next]_vars

---------------------------------------------------------------------------
(* The BitArray on its own: a program constructs one array, then calls     *)
(* set_to and get on it with indices inside and outside its width.  A      *)
(* failed assertion ends the program.                                      *)

Widths == (0..MaxSmall) \cup ((bits_in_word - 1)..(bits_in_word + MaxSmall))
BitIndices == (0..(MaxSmall + 1)) \cup ((bits_in_word - 1)..(bits_in_word + MaxSmall + 1))

BitArrayNew ==
    \E bit_count \in Widths :
        LET r == BitArray_new(bit_count)
        IN /\ phase = "init"
           /\ phase' = IF r.ok THEN "live" ELSE "panic"
           /\ ba' = r.self
           /\ op' = [name |-> "BitArray::new", bit |-> bit_count, state |-> FALSE,
                     ok |-> r.ok, ret |-> FALSE]
           /\ UNCHANGED <<bf, args, marked>>

BitArraySetTo ==
    \E bit \in BitIndices, state \in BOOLEAN :
        LET r == BitArray_set_to(ba, bit, state)
        IN /\ phase = "live"
           /\ phase' = IF r.ok THEN "live" ELSE "panic"
           /\ ba' = r.self
           /\ op' = [name |-> "BitArray::set_to", bit |-> bit, state |-> state,
                     ok |-> r.ok, ret |-> FALSE]
           /\ UNCHANGED <<bf, args, marked>>

BitArrayGet ==
    \E bit \in BitIndices :
        LET r == BitArray_get(ba, bit)
        IN /\ phase = "live"
           /\ phase' = IF r.ok THEN "live" ELSE "panic"
           /\ ba' = r.self
           /\ op' = [name |-> "BitArray::get", bit |-> bit, state |-> FALSE,
                     ok |-> r.ok, ret |-> r.ret]
           /\ UNCHANGED <<bf, args, marked>>

NextBitArray ==
    \/ BitArrayNew
    \/ BitArraySetTo
    \/ BitArrayGet

SpecBitArray == Init /\ [][NextBitArray]_vars

---------------------------------------------------------------------------
(* The functions of the library called on their own, once each, with       *)
(* arguments a caller can pass; op records the call and what it returned.  *)

\* The values index_mask is called with: every (scaled) u64.
MaskValues == 0..U64Max

IndexMaskCall ==
    \E value \in MaskValues :
        /\ phase = "init"
        /\ phase' = "live"
        /\ op' = [name |-> "index_mask", value |-> value, ret |-> index_mask(value)]
        /\ UNCHANGED <<bf, args, marked, ba>>

\* The hashers hash_until is handed: a fresh one (StandardBloom::hash), and one
\* that a seed and an item were written to (BlockedBloom::block_idx).
Hashers ==
    {Hasher_default}
        \cup {Item_hash(x, Hasher_write_u64(Hasher_default, rng_gen(s, 0))) :
                  x \in Items, s \in Seeds}

\* The predicates hash_until is handed: those of the filters, (mask & v) <= bound
\* with mask = index_mask(bound), the one of test_hash_until, (0xFF & v) > 128
\* scaled to the width, and one that accepts a single value.
Props ==
    {[cmp |-> "le", mask |-> index_mask(bd), bound |-> bd] : bd \in {0, 2, 4, 5, 8}}
        \cup {[cmp |-> "gt", mask |-> U64Max, bound |-> U64Mod \div 2],
              [cmp |-> "gt", mask |-> 7, bound |-> 6]}

HashUntilCall ==
    \E h \in Hashers, initial \in 0..U64Max, prop \in Props :
        /\ phase = "init"
        /\ phase' = "live"
        /\ op' = [name |-> "hash_until", h |-> h, initial |-> initial, prop |-> prop,
                  res |-> hash_until(h, initial, prop)]
        /\ UNCHANGED <<bf, args, marked, ba>>

\* The first integer that `as f32` cannot tell from its successor.
F32Exact == 2 ^ f32_mantissa_bits

\* Set sizes for the constructors called on their own: small ones and ones around
\* the largest integer an f32 holds exactly.
BigNs == (1..(MaxN + 1)) \cup ((F32Exact - 1)..(F32Exact + MaxN + 1))

\* What a constructor built: the number of blocks and each block's width and k.
Built(r) ==
    [ok |-> r.ok,
     count |-> Len(FilterBlocks(r.self)),
     widths |-> [j \in 1..Len(FilterBlocks(r.self)) |->
                     BitArray_width(FilterBlocks(r.self)[j].bits)],
     ks |-> [j \in 1..Len(FilterBlocks(r.self)) |-> FilterBlocks(r.self)[j].k]]

NewWithBlocksCall ==
    \E n \in BigNs, c \in 1..MaxC, k \in 1..MaxK, b \in 1..(MaxB + 1), s \in Seeds :
        /\ phase = "init"
        /\ phase' = "live"
        /\ op' = [name |-> "new_with_blocks", n |-> n, c |-> c, k |-> k, b |-> b,
                  built |-> Built(BlockedBloom_new_with_blocks(n, c, k, b, s))]
        /\ UNCHANGED <<bf, args, marked, ba>>

\* Set sizes and bits per member for BlockedBloom::new called on its own: small
\* ones and ones around the 64K block size, one of the two being small.
AroundBlockSize == (max_block_size - 1)..(max_block_size + MaxN)

BlockedNewCall ==
    \E n \in (1..(MaxN + 1)) \cup AroundBlockSize, c \in (1..MaxC) \cup AroundBlockSize,
       k \in 1..MaxK, s \in Seeds :
        /\ phase = "init"
        /\ n <= MaxN + 1 \/ c <= MaxC
        /\ phase' = "live"
        /\ op' = [name |-> "BlockedBloom::new", n |-> n, c |-> c, k |-> k,
                  b |-> BlockedBloom_block_count(n, c),
                  built |-> Built(BlockedBloom_new(n, c, k, s))]
        /\ UNCHANGED <<bf, args, marked, ba>>

NextFns ==
    \/ IndexMaskCall
    \/ HashUntilCall
    \/ NewWithBlocksCall
    \/ BlockedNewCall

SpecFns == Init /\ [][NextFns]_vars

---------------------------------------------------------------------------
(* examples/baffles.rs: run(bf) on a filter built as main builds it.  phase  *)
(* is the position in run: "insert" (the loop), "probe" (the fold) and       *)
(* "done" (RunResult returned).  op holds run's locals and, in probed, the   *)
(* items the fold has called check with.                                     *)

\* The trait's names for set and get, and the set size n the filter was built for.
BloomFilter_mark(self, item) == BloomFilter_set(self, item)

BloomFilter_check(self, item) == BloomFilter_get(self, item)

BloomFilter_set_size(self, a) == a.n

\* let n = bf.set_size(); let mut marked = 0; let mut i = 0;
RunEntered(r, a) ==
    /\ phase' = IF r.ok THEN "insert" ELSE "panic"
    /\ bf' = r.self
    /\ args' = a
    /\ marked' = {}
    /\ op' = [name |-> "run", n |-> BloomFilter_set_size(r.self, a), marked |-> 0, i |-> 0,
              not_members_start |-> 0, not_members_end |-> 0, v |-> 0,
              false_positives |-> 0, probed |-> {}]
    /\ UNCHANGED ba

RunStandard ==
    \E n \in 1..(MaxN + 1), c \in 1..MaxC, k \in 1..MaxK, s \in Seeds :
        /\ phase = "init"
        /\ RunEntered(StandardBloom_new(n, c, k, s),
                      [ctor |-> "StandardBloom::new", n |-> n, c |-> c, k |-> k, b |-> 0])

RunBlocked ==
    \E n \in 1..(MaxN + 1), c \in 1..MaxC, k \in 1..MaxK, b \in 1..MaxB, s \in Seeds :
        /\ phase = "init"
        /\ RunEntered(BlockedBloom_new_with_blocks(n, c, k, b, s),
                      [ctor |-> "BlockedBloom::new_with_blocks",
                       n |-> n, c |-> c, k |-> k, b |-> b])

\* One round of the insert loop.
RunInsert ==
    LET chk == BloomFilter_check(bf, op.i)
        mrk == BloomFilter_mark(bf, op.i)
    IN /\ phase = "insert"
       /\ UNCHANGED <<args, ba>>
       /\ IF chk.hang \/ ~chk.ok
          THEN /\ phase' = IF chk.hang THEN "hung" ELSE "panic"
               /\ UNCHANGED <<bf, marked, op>>
          ELSE IF ~chk.ret
          THEN IF mrk.hang \/ ~mrk.ok
               THEN /\ phase' = IF mrk.hang THEN "hung" ELSE "panic"
                    /\ UNCHANGED <<bf, marked, op>>
               ELSE /\ bf' = mrk.self
                    /\ marked' = marked \cup {op.i}
                    /\ IF op.marked + 1 >= op.n
                       THEN /\ phase' = "probe"
                            /\ op' = [op EXCEPT !.marked = @ + 1,
                                                !.not_members_start = op.i + 1,
                                                !.not_members_end = op.i + op.n,
                                                !.v = op.i + 1]
                       ELSE /\ op.i < MaxRunItem
                            /\ phase' = "insert"
                            /\ op' = [op EXCEPT !.marked = @ + 1, !.i = @ + 1]
          ELSE /\ op.i < MaxRunItem
               /\ phase' = "insert"
               /\ op' = [op EXCEPT !.i = @ + 1]
               /\ UNCHANGED <<bf, marked>>

\* One round of the fold over not_members_start..not_members_end, a range that
\* leaves its end out.
RunProbe ==
    LET chk == BloomFilter_check(bf, op.v)
    IN /\ phase = "probe"
       /\ op.v < op.not_members_end
       /\ UNCHANGED <<bf, args, marked, ba>>
       /\ IF chk.hang \/ ~chk.ok
          THEN /\ phase' = IF chk.hang THEN "hung" ELSE "panic"
               /\ UNCHANGED op
          ELSE /\ phase' = "probe"
               /\ op' = [op EXCEPT !.v = @ + 1,
                                   !.probed = @ \cup {op.v},
                                   !.false_positives = IF chk.ret THEN @ + 1 ELSE @]

\* The range is used up: RunResult is returned.
RunReturn ==
    /\ phase = "probe"
    /\ ~(op.v < op.not_members_end)
    /\ phase' = "done"
    /\ UNCHANGED <<bf, args, marked, op, ba>>

NextRun ==
    \/ RunStandard
    \/ RunBlocked
    \/ RunInsert
    \/ RunProbe
    \/ RunReturn

SpecRun == Init /\ [][NextRun]_vars

---------------------------------------------------------------------------
(* Properties. *)

Live == phase = "live"

StandardCtors == {"StandardBloom::new", "StandardBloom::new_with_seeds"}
BlockedCtors == {"BlockedBloom::new", "BlockedBloom::new_with_blocks"}

\* The set of indices a sequence holds.
Range(v) == {v[i] : i \in 1..Len(v)}

\* C1: no false negatives.  In every state of a live filter (standard or
\* blocked), get returns true for every item that set was ever called with,
\* whatever was marked after it.
C1_NoFalseNegatives ==
    Live => \A x \in marked :
                LET r == BloomFilter_get(bf, x) IN r.ok /\ ~r.hang /\ r.ret

\* A blocked filter of two blocks after a set, with another item marked earlier.
C1_Witness ==
    /\ Live /\ bf.tag = "blocked" /\ Len(bf.blocks) >= 2
    /\ op.name = "set" /\ \E x \in marked : x # op.item

\* C2: no live filter has k > c: every constructor fails when k exceeds c.
C2_KNeverExceedsC ==
    Live => args.k <= args.c

\* C3: construction rejects zero-valued parameters.  A standard constructor
\* called with k = 0 or n * c = 0, and a blocked constructor called with n, c,
\* k or b equal to 0, panics and leaves no filter; a live filter has at least
\* one block, and each block has k > 0 and a bit width > 0.
C3_ZeroParametersRejected ==
    /\ (args.ctor \in StandardCtors /\ (args.k = 0 \/ args.n * args.c = 0))
           => (phase = "panic" /\ bf = NoFilter)
    /\ (args.ctor \in BlockedCtors
            /\ (args.n = 0 \/ args.c = 0 \/ args.k = 0 \/ args.b = 0))
           => (phase = "panic" /\ bf = NoFilter)
    /\ phase = "panic" /\ op.name = "new" => bf = NoFilter
    /\ Live => /\ Len(FilterBlocks(bf)) > 0
               /\ \A j \in 1..Len(FilterBlocks(bf)) :
                      /\ FilterBlocks(bf)[j].k > 0
                      /\ BitArray_width(FilterBlocks(bf)[j].bits) > 0

\* new_with_blocks(n, c, k, 0) with n, c, k > 0 has panicked.
C3_Witness ==
    /\ phase = "panic" /\ args.ctor = "BlockedBloom::new_with_blocks"
    /\ args.b = 0 /\ args.n > 0 /\ args.c > 0 /\ args.k > 0

\* C4: mark is idempotent.  A set of the item that the previous operation set
\* returns normally and leaves the filter exactly as it was, so get answers the
\* same for every item.
C4_MarkIdempotent ==
    [][(Live /\ op.name = "set" /\ op'.name = "set" /\ op'.item = op.item)
           => /\ phase' = "live"
              /\ bf' = bf
              /\ \A x \in Items : BloomFilter_get(bf', x) = BloomFilter_get(bf, x)]_vars

\* An item was set although it was the only item ever set: it was set twice.
C4_Witness ==
    Live /\ op.name = "set" /\ op.again /\ marked = {op.item}

\* What set must keep of a StandardBloom.
Params(f) ==
    [k |-> f.k, seed1 |-> f.seed1, seed2 |-> f.seed2, mask |-> f.mask,
     width |-> BitArray_width(f.bits), words |-> Len(f.bits.backing)]

\* Filter g has the blocks of f, each with the same parameters and every bit of
\* every word that is set in f still set.
Grown(f, g) ==
    /\ f.tag = g.tag
    /\ Len(FilterBlocks(f)) = Len(FilterBlocks(g))
    /\ \A j \in 1..Len(FilterBlocks(f)) :
           /\ Params(FilterBlocks(g)[j]) = Params(FilterBlocks(f)[j])
           /\ \A w \in 1..Len(FilterBlocks(f)[j].bits.backing) :
                  FilterBlocks(f)[j].bits.backing[w] \subseteq FilterBlocks(g)[j].bits.backing[w]

\* C5: mark is monotonic and keeps the parameters fixed.  No step from a live
\* filter clears a bit or changes k, seed1, seed2, the mask or the width of a
\* block, and a standard filter's width is n * c in every state.
C5_MonotonicAndParametersFixed ==
    /\ [](Live /\ bf.tag = "standard" => BitArray_width(bf.bits) = args.n * args.c)
    /\ [][Live => Grown(bf, bf')]_vars

\* A standard filter on which a set has just added bits to those of another item.
C5_Witness ==
    /\ Live /\ bf.tag = "standard" /\ op.name = "set" /\ ~op.again
    /\ Cardinality(marked) >= 2
    /\ Cardinality(SetBits(bf.bits)) >= 3

\* C6: check is a pure read and deterministic.  A get leaves the filter
\* unchanged, and the answer of the last get is the answer a second get of the
\* same item gives in the state the first one left.
C6_CheckIsPureAndDeterministic ==
    /\ [](Live /\ op.name = "get" => BloomFilter_get(bf, op.item).ret = op.ret)
    /\ [][op'.name = "get" => bf' = bf]_vars

\* A get on a blocked filter answered true, and one answered false, with bits set.
C6_Witness ==
    /\ Live /\ bf.tag = "blocked" /\ op.name = "get" /\ ~op.ret /\ marked # {}

\* C7: a fresh filter is empty.  While nothing has been marked every get
\* answers false, and a get that answered true was preceded by a set.
C7_FreshFilterIsEmpty ==
    /\ Live /\ marked = {} => \A x \in Items : ~BloomFilter_get(bf, x).ret
    /\ op.name = "get" /\ op.ret => marked # {}

\* A get has been answered on a filter nothing was marked in.
C7_Witness ==
    Live /\ marked = {} /\ op.name = "get" /\ ~op.ret

\* C8: block routing is stable and in range.  In a live blocked filter built
\* with b blocks, block_idx of every item is a valid index 0..b-1 into blocks,
\* and no step (set or get of any item) changes the block_idx of any item.
C8_BlockRoutingStableInRange ==
    /\ [](Live /\ bf.tag = "blocked" =>
             /\ Len(bf.blocks) = args.b
             /\ \A x \in Items :
                    LET i == BlockedBloom_block_idx(bf, x)
                    IN i.ok => i.idx \in 0..(args.b - 1))
    /\ [][bf.tag = "blocked" /\ bf'.tag = "blocked" =>
              \A x \in Items :
                  BlockedBloom_block_idx(bf', x) = BlockedBloom_block_idx(bf, x)]_vars

\* Two marked items live in different blocks, and a get came after the sets.
C8_Witness ==
    /\ Live /\ bf.tag = "blocked" /\ op.name = "get"
    /\ \E x, y \in marked :
           BlockedBloom_block_idx(bf, x).idx # BlockedBloom_block_idx(bf, y).idx

C10_BitArrayBounds ==
    /\ [](op.name = "BitArray::new" => (op.ok <=> op.bit > 0))
    /\ [][(Live /\ op'.name \in {"BitArray::set_to", "BitArray::get"})
              => /\ op'.ok <=> op'.bit < BitArray_width(ba)
                 /\ ~op'.ok => ba' = ba]_vars

\* A set_to at index = width has failed on a two-word array that holds set bits.
C10_Witness ==
    /\ phase = "panic" /\ op.name = "BitArray::set_to" /\ op.bit = BitArray_width(ba)
    /\ Len(ba.backing) = 2 /\ SetBits(ba) # {}

\* C11: a BitArray is a fixed-width map from index to bool.  A new array reads
\* false at every index; a set_to(i, state) that returns makes get(i) read state
\* and leaves the reading of every other index, the width and the number of
\* words as they were; a get changes nothing and returns what the array holds;
\* a get of i right after set_to(i, state) returns state.
C11_BitArrayIsMap ==
    /\ [](op.name = "BitArray::new" /\ op.ok =>
             /\ BitArray_width(ba) = op.bit
             /\ \A i \in 0..(BitArray_width(ba) - 1) :
                    BitArray_get(ba, i).ok /\ ~BitArray_get(ba, i).ret)
    /\ [][(Live /\ op'.name = "BitArray::set_to" /\ op'.ok) =>
              /\ BitArray_get(ba', op'.bit).ret = op'.state
              /\ \A j \in (0..(BitArray_width(ba) - 1)) \ {op'.bit} :
                     BitArray_get(ba', j).ret = BitArray_get(ba, j).ret
              /\ BitArray_width(ba') = BitArray_width(ba)
              /\ Len(ba'.backing) = Len(ba.backing)]_vars
    /\ [][(Live /\ op'.name = "BitArray::get" /\ op'.ok) =>
              /\ ba' = ba
              /\ op'.ret = BitArray_get(ba, op'.bit).ret
              /\ (op.name = "BitArray::set_to" /\ op.bit = op'.bit) => op'.ret = op.state
              /\ (op.name = "BitArray::new") => ~op'.ret]_vars

\* A bit of the second word was cleared while its neighbour in the same word
\* and a bit of the first word stay set.
C11_Witness ==
    /\ Live /\ op.name = "BitArray::set_to" /\ ~op.state
    /\ op.bit = bits_in_word + 1
    /\ SetBits(ba) = {0, bits_in_word}

\* C12: index_mask(v) is the smallest value 2^m - 1, m >= 1, that is >= v, and
\* the all-ones value when no such value below all-ones exists; the result is
\* never below v; index_mask(0) = 1, index_mask(1) = 1, index_mask(2) = 3, and
\* index_mask of the top bit alone (1 << 63, scaled) is all ones.
C12_IndexMaskSmallestCover ==
    op.name = "index_mask" =>
        LET v == op.value
            r == op.ret
            below == {2 ^ m - 1 : m \in 1..(HashBits - 1)}
        IN /\ r >= v
           /\ r \in below \cup {U64Max}
           /\ \A q \in below : q >= v => r <= q
           /\ (\A q \in below : q < v) => r = U64Max
           /\ v = 0 => r = 1
           /\ v = 1 => r = 1
           /\ v = 2 => r = 3
           /\ v = 2 ^ (HashBits - 1) => r = U64Max

\* index_mask was called with the top bit alone and returned all ones.
C12_Witness ==
    op.name = "index_mask" /\ op.value = 2 ^ (HashBits - 1) /\ op.ret = U64Max

\* C13: hash_until(h, initial, prop).  When prop(initial) holds the call returns
\* initial and makes no write to and no finish of the hasher, which it leaves as
\* it was; otherwise it writes and finishes at least once, and whenever it
\* returns, prop holds of the value returned, which is the last finish.
C13_HashUntilContract ==
    op.name = "hash_until" =>
        LET res == op.res
        IN /\ call_prop(op.prop, op.initial) =>
                  /\ res.ok
                  /\ res.r = op.initial
                  /\ res.writes = 0
                  /\ res.h = op.h
           /\ (~call_prop(op.prop, op.initial) /\ res.ok) =>
                  /\ call_prop(op.prop, res.r)
                  /\ res.writes >= 1
                  /\ res.r = Hasher_finish(res.h)

\* A call on a hasher that was written to before, whose initial value the
\* predicate of test_hash_until rejects, returned after more than one re-hash.
C13_Witness ==
    /\ op.name = "hash_until" /\ op.res.ok /\ op.res.writes >= 2
    /\ op.prop.cmp = "gt" /\ op.h # Hasher_default
    /\ ~call_prop(op.prop, op.initial)

\* A call whose initial value the predicate accepts has returned.
C13_WitnessInitialAccepted ==
    /\ op.name = "hash_until" /\ op.res.ok /\ op.res.writes = 0
    /\ call_prop(op.prop, op.initial) /\ op.h # Hasher_default

\* An empty BitArray of the width of a.
Cleared(a) == BitArray_new(BitArray_width(a)).self

\* C15: a blocked filter routes each operation to exactly one block.  A set of
\* x that returns leaves every block other than blocks[block_idx(x)] as it was
\* and does to that block what the block's own set does; a get of x returns what
\* the get of blocks[block_idx(x)] returns, also when the bits of every other
\* block are cleared or replaced by those of the item's block.
C15_BlockedRoutesToOneBlock ==
    /\ [][(Live /\ bf.tag = "blocked" /\ op'.name = "set" /\ phase' = "live") =>
              LET i == BlockedBloom_block_idx(bf, op'.item).idx + 1
              IN /\ Len(bf'.blocks) = Len(bf.blocks)
                 /\ \A j \in (1..Len(bf.blocks)) \ {i} : bf'.blocks[j] = bf.blocks[j]
                 /\ bf'.blocks[i] = StandardBloom_set(bf.blocks[i], op'.item).self]_vars
    /\ [](Live /\ bf.tag = "blocked" =>
             \A x \in Items :
                 LET i == BlockedBloom_block_idx(bf, x).idx + 1
                     own == StandardBloom_get(bf.blocks[i], x).ret
                     others(g) == [j \in 1..Len(bf.blocks) |->
                                       IF j = i THEN bf.blocks[j]
                                       ELSE [bf.blocks[j] EXCEPT !.bits = g]]
                 IN /\ BlockedBloom_get(bf, x).ret = own
                    /\ (op.name = "get" /\ op.item = x) => op.ret = own
                    /\ \A j \in 1..Len(bf.blocks) :
                           BitArray_width(bf.blocks[j].bits) = BitArray_width(bf.blocks[i].bits)
                    /\ BlockedBloom_get([bf EXCEPT !.blocks = others(Cleared(bf.blocks[i].bits))],
                                        x).ret = own
                    /\ BlockedBloom_get([bf EXCEPT !.blocks = others(bf.blocks[i].bits)],
                                        x).ret = own)

\* A set has just gone to one of two blocks while the other block holds the bits
\* of an item marked earlier, and a later get of the item is still to come.
C15_Witness ==
    /\ Live /\ bf.tag = "blocked" /\ Len(bf.blocks) = 2 /\ op.name = "set" /\ ~op.again
    /\ \A j \in 1..2 : SetBits(bf.blocks[j].bits) # {}
    /\ \E x \in marked :
           BlockedBloom_block_idx(bf, x).idx # BlockedBloom_block_idx(bf, op.item).idx

\* ceil(n / b) in the integers.
CeilDiv(n, b) == (n + b - 1) \div b

RECURSIVE SumSeq(_, _)
SumSeq(q, from) == IF from > Len(q) THEN 0 ELSE q[from] + SumSeq(q, from + 1)

\* C16: new_with_blocks(n, c, k, b) with n, c, k, b > 0 builds exactly b blocks,
\* every block of bit width ceil(n / b) * c with k hash functions, so that the
\* widths of all blocks add up to at least n * c.
C16_BlocksHoldCeilShare ==
    op.name = "new_with_blocks" =>
        /\ op.built.ok
        /\ op.built.count = op.b
        /\ \A j \in 1..op.built.count :
               /\ op.built.widths[j] = CeilDiv(op.n, op.b) * op.c
               /\ op.built.ks[j] = op.k
        /\ SumSeq(op.built.widths, 1) >= op.n * op.c

\* C17: BlockedBloom::new(n, c, k) with n, c > 0 uses ceil(n * c / 65536) blocks,
\* at least one, and every block it builds is ceil(n / block_count) * c bits
\* wide, which is at most 65536 bits.
C17_BlocksCappedAt64K ==
    op.name = "BlockedBloom::new" =>
        /\ op.b = CeilDiv(op.n * op.c, max_block_size)
        /\ op.b >= 1
        /\ op.built.ok
        /\ op.built.count = op.b
        /\ \A j \in 1..op.built.count :
               /\ op.built.widths[j] = CeilDiv(op.n, op.b) * op.c
               /\ op.built.widths[j] <= max_block_size

\* C18: each retry of hash_until hashes the rejected value in a fresh hash
\* state, so what follows a rejected value depends on that value alone: two
\* calls whose initial value is the same rejected value return the same usable
\* value whatever was written to their hashers before, the one that a fresh
\* hasher gives.
C18_RetryUsesFreshState ==
    (op.name = "hash_until" /\ ~call_prop(op.prop, op.initial) /\ op.res.ok) =>
        \A g \in Hashers :
            LET other == hash_until(g, op.initial, op.prop)
            IN other.ok => other.r = op.res.r

\* C20: run inserts exactly n items, marking an item only when check was false
\* for it just before, and then probes the next n items, none of them inserted,
\* counting those check is true for.  When run returns, n items are marked, the
\* items probed are the n items after the last one inserted, none of them is
\* marked, and false_positives is the number of them that check answers true for.
C20_RunInsertsAndProbesN ==
    /\ [](phase = "done" =>
             /\ Cardinality(marked) = op.n
             /\ op.marked = op.n
             /\ op.probed = (op.i + 1)..(op.i + op.n)
             /\ op.probed \cap marked = {}
             /\ op.false_positives =
                    Cardinality({x \in op.probed : BloomFilter_check(bf, x).ret}))
    /\ [][(phase = "insert" /\ marked' # marked) =>
              /\ ~BloomFilter_check(bf, op.i).ret
              /\ marked' = marked \cup {op.i}]_vars

============================================================================
